---- MODULE Spec2Model ----
(***************************************************************************)
(* Model of the BISICLES snapshot-to-netCDF batching pipelines             *)
(* (lib/process_ctrl.py, lib/process_plot.py, lib/process_netcdf.py) and   *)
(* of the snapshot reader lib/bisiclesfile.py.                             *)
(*                                                                         *)
(* Strings are sequences of one-character strings, so that the regular     *)
(* expression search, str.replace and iteration over a str are computed.   *)
(* Times are integers in units of 1e-4 model time units.                   *)
(***************************************************************************)
EXTENDS Integers, Sequences, FiniteSets, TLC

VARIABLES
    outfile,    \* the output path: "absent", "partial" or "complete"
    runs,       \* number of top-level pipeline calls started so far
    writes,     \* number of to_netcdf calls made so far
    completed,  \* number of to_netcdf calls that returned normally so far
    pipeline,   \* variant of the current/last call: "none","ctrl","plot","netcdf"
    overwrite,  \* generate_netcdf's overwrite argument (FALSE in ctrl/plot)
    existed,    \* whether the output path was a file when the call started
    pc,         \* "idle", "with" (inside a BisiclesFile block), "extract", "batched"
    variable,   \* self.variable (a str), self.variables (a list of str)
    lev,        \* level of refinement of the call
    order,      \* interpolation order the call hands to the reader
    cli_order,  \* --order of the command line of process_plot (0 elsewhere)
    slices,     \* batch_time: the per-file datasets kept for the final concat
    files,      \* sorted file list: names (ctrl) or ranks 1..n (plot, netcdf)
    embedded,   \* the times amrio.queryTime returned so far in this call
    iters,      \* batch_timesteps: the grouping, a sequence of [time, tfiles]
    gi,         \* index of the time group being batched
    fi,         \* index of the file being read (within the group for ctrl)
    bfile,      \* the BisiclesFile of the current with-block
    vi,         \* read_dataset: index of the next variable to read
    flat_data,  \* read_dataset: keys read so far from the current file
    qtime,      \* batch_time: result of query_time for the current file, or None
    exc,        \* exception propagating out of the with-block, or "none"
    amr,        \* the native library's table of loaded handles
    batched_it, \* batch_iterations: iteration coordinates of its accumulator
    batched,    \* time accumulator: sequence of [time, iteration]
    keys,       \* data variables of the accumulated dataset
    calls,      \* the pair lists batch_iterations was invoked with, in order
    skipped,    \* batch_time: indices of the files skipped as near-duplicates
    result,     \* how the last call ended
    wres,       \* outcome of the last to_netcdf call
    name,       \* filename handed to get_time_and_iteration
    decoded,    \* its result, or "pending"
    hfile,      \* a BisiclesFile used on its own, method by method
    htable,     \* the native library's table of loaded handles for hfile
    hist,       \* tally of the native calls made on behalf of hfile
    last,       \* the last method called on hfile and what it left behind
    pairs,      \* iter_file_pairs of a direct call of batch_iterations
    ires        \* what that call returned or raised, or "pending"

hvars == <<hfile, htable, hist, last>>

ivars == <<pairs, ires>>

vars == <<outfile, runs, writes, completed, pipeline, overwrite, existed, pc,
          variable, lev, order, cli_order, slices, files, embedded, iters, gi, fi, bfile, vi, flat_data, qtime, exc, amr,
          batched_it, batched, keys, calls, skipped, result, wres, name, decoded, hvars, ivars>>

runvars == <<outfile, runs, writes, completed, pipeline, overwrite, existed, pc,
              variable, lev, order, cli_order, slices, files, embedded, iters, gi, fi, bfile, vi, flat_data, qtime, exc, amr,
              batched_it, batched, keys, calls, skipped, result, wres>>

pipevars == <<runvars, hvars, ivars>>

None == -1

----------------------------------------------------------------------------
(* Bounds *)

MaxRuns == 2
MaxFiles == 3

\* method calls made on one BisiclesFile used on its own
MaxCalls == 4

----------------------------------------------------------------------------
(* Characters and strings *)

Digits == <<"0", "1", "2", "3", "4", "5", "6", "7", "8", "9">>

\* the characters used, in code point order
Alphabet == <<".", "/", "0", "1", "2", "3", "4", "5", "6", "7", "8", "9",
              "a", "b", "c", "d", "f", "h", "l", "m", "n", "r", "t", "u", "x">>

Ord(c) == CHOOSE k \in 1..Len(Alphabet) : Alphabet[k] = c

IsDigit(c) == \E k \in 1..Len(Digits) : Digits[k] = c

DigitVal(c) == (CHOOSE k \in 1..Len(Digits) : Digits[k] = c) - 1

Min(S) == CHOOSE x \in S : \A y \in S : x <= y

RECURSIVE Pow10(_)
Pow10(n) == IF n = 0 THEN 1 ELSE 10 * Pow10(n - 1)

\* int(s) for a string of decimal digits
RECURSIVE ToInt(_)
ToInt(s) == IF s = <<>> THEN 0
            ELSE 10 * ToInt(SubSeq(s, 1, Len(s) - 1)) + DigitVal(s[Len(s)])

\* n written with six digits, zero padded: the encoding of the name convention
Pad6(n) == [k \in 1..6 |-> Digits[((n \div Pow10(6 - k)) % 10) + 1]]

\* ".".join(segs)
RECURSIVE Join(_)
Join(segs) == IF segs = <<>> THEN <<>>
              ELSE IF Len(segs) = 1 THEN segs[1]
              ELSE segs[1] \o <<".">> \o Join(Tail(segs))

\* s.split(".")
RECURSIVE Split(_)
Split(s) == IF \A k \in 1..Len(s) : s[k] # "." THEN <<s>>
            ELSE LET p == Min({k \in 1..Len(s) : s[k] = "."})
                 IN <<SubSeq(s, 1, p - 1)>> \o Split(SubSeq(s, p + 1, Len(s)))

\* a < b for str
RECURSIVE StrLess(_, _)
StrLess(a, b) == IF b = <<>> THEN FALSE
                 ELSE IF a = <<>> THEN TRUE
                 ELSE IF a[1] # b[1] THEN Ord(a[1]) < Ord(b[1])
                 ELSE StrLess(Tail(a), Tail(b))

\* sorted(S) for a set of names
RECURSIVE SortedNames(_)
SortedNames(S) == IF S = {} THEN <<>>
                  ELSE LET m == CHOOSE x \in S : \A y \in S \ {x} : StrLess(x, y)
                       IN <<m>> \o SortedNames(S \ {m})

\* s.replace("/", "")
Sanitize(s) == SelectSeq(s, LAMBDA c : c # "/")

\* the items a for-loop over a str yields: its characters, each a str
Chars(s) == [k \in 1..Len(s) |-> <<s[k]>>]

----------------------------------------------------------------------------
(* get_time_and_iteration *)

dt_typical == 1

\* re.compile(r"\.(\d{6})(\d{6})\.") matches at position p of s
MatchAt_NoTrailingDot(s, p) ==
    /\ p + 12 <= Len(s)
    /\ s[p] = "."
    /\ \A k \in 1..12 : IsDigit(s[p + k])

MatchAt(s, p) ==
    /\ p + 13 <= Len(s)
    /\ s[p] = "."
    /\ \A k \in 1..12 : IsDigit(s[p + k])
    /\ s[p + 13] = "."

Returned(v) == [raised |-> "none", value |-> v]
Raised(e) == [raised |-> e, value |-> <<>>]

\* float(group(1)) * dt_typical instead of the time in the name
Decode_IterationAsTime(s, p) ==
    <<ToInt(SubSeq(s, p + 7, p + 12)) * dt_typical, ToInt(SubSeq(s, p + 7, p + 12))>>

\* the (time, iteration) pair of the match at p
Decode(s, p) ==
    <<ToInt(SubSeq(s, p + 1, p + 6)) * dt_typical, ToInt(SubSeq(s, p + 7, p + 12))>>

get_time_and_iteration(s) ==
    LET ms == {p \in 1..Len(s) : MatchAt(s, p)}
    IN IF ms = {} THEN Raised("ValueError")
       ELSE Returned(Decode(s, Min(ms)))

----------------------------------------------------------------------------
(* Inputs of the pipelines *)

ctrl == <<"c", "t", "r", "l">>
tail2d == <<<<"2", "d">>, <<"h", "d", "f", "5">>>>

\* ctrl.<run>.<6 digits><6 digits>.2d.hdf5
CtrlName(run, t, i) == Join(<<ctrl, <<run>>, Pad6(t) \o Pad6(i)>> \o tail2d)

\* a name the glob ctrl.*.2d.hdf5 matches whose digit block has 11 digits
ShortName == Join(<<ctrl, <<"a">>, Pad6(15) \o SubSeq(Pad6(1), 2, 6)>> \o tail2d)

CtrlNames == {CtrlName("a", 15, 1), CtrlName("a", 15, 2), CtrlName("a", 20, 1),
              CtrlName("b", 15, 1), ShortName}

\* the content of a ctrl directory
CtrlDirs == {d \in SUBSET CtrlNames : Cardinality(d) <= MaxFiles}

\* stand-ins for names such as "x", "muCoef"
CtrlVariables == {<<"x">>, <<"m", "u">>}

\* stand-ins for ["muCoef"] and ["dThickness/dt", "muCoef"]
PlotVariables == {<< <<"m", "u">> >>, << <<"d", "/", "t">>, <<"m", "u">> >>}

Levels == {0, 1}

\* the (lo, hi) pairs amrio.queryDomainCorners may answer with
CornerValues == {<<0, 63>>, <<0, 127>>}

\* x model time units, in units of 1e-4
Units(x) == x * 10000

\* embedded times of plot files: 100.0001, 100.0299, 100.2, 2000.0, 2000.0649
PlotTimes == {Units(100) + 1, Units(100) + 299, Units(100) + 2000,
              Units(2000), Units(2000) + 649}

\* sorted(plot_dir.glob(...)) for a directory of n files: the files by rank
Ranks(n) == [k \in 1..n |-> k]

\* the number of files of a plot directory
PlotDirs == 0..MaxFiles

MAX_TIME == 2300

\* embedded times of the files process_netcdf reads: 100.0, 2300.0, 2300.0001, 2301.0
NetcdfTimes == {Units(100), Units(MAX_TIME), Units(MAX_TIME) + 1, Units(MAX_TIME + 1)}

NetcdfDirs == 0..MaxFiles

\* the keys of the specs table; stand-ins for "muCoef" and "dThickness/dt"
specs == {<<"m", "u">>, <<"d", "/", "t">>}

\* a variable of the table, one with a slash, and one the table does not hold
NetcdfVariables == specs \cup {<<"n", "a">>}

----------------------------------------------------------------------------
(* batch_timesteps: grouping *)

\* iters[time].append(pair) at the front of the list
AddPair_Prepend(its, time, pair) ==
    IF \E k \in 1..Len(its) : its[k].time = time
    THEN LET k == CHOOSE j \in 1..Len(its) : its[j].time = time
         IN [its EXCEPT ![k].tfiles = <<pair>> \o @]
    ELSE Append(its, [time |-> time, tfiles |-> <<pair>>])

\* a new group for every pair
AddPair_NoMerge(its, time, pair) ==
    Append(its, [time |-> time, tfiles |-> <<pair>>])

\* iters[time].append((iteration, file)) on a dict, which keeps insertion order
AddPair(its, time, pair) ==
    IF \E k \in 1..Len(its) : its[k].time = time
    THEN LET k == CHOOSE j \in 1..Len(its) : its[j].time = time
         IN [its EXCEPT ![k].tfiles = Append(@, pair)]
    ELSE Append(its, [time |-> time, tfiles |-> <<pair>>])

RECURSIVE GroupFrom(_, _)
GroupFrom(fs, its) ==
    IF fs = <<>> THEN Returned(its)
    ELSE LET d == get_time_and_iteration(Head(fs))
         IN IF d.raised # "none" THEN Raised(d.raised)
            ELSE GroupFrom(Tail(fs), AddPair(its, d.value[1], <<d.value[2], Head(fs)>>))

\* the loop that fills iters
GroupFiles(fs) == GroupFrom(fs, <<>>)

----------------------------------------------------------------------------
(* BisiclesFile *)

\* _amrID and the dict _domain_corners, a set of <<level, (lo, hi)>> items
NewBisiclesFile == [amrID |-> None, corners |-> {}]

\* amrio.load: a handle the table does not hold
NewID(table) == Min({n \in 0..Cardinality(table) : n \notin table})

\* one call of the native library amrio: its arguments after the handle,
\* whether it returned, and the corners it returned (<<>> for the other calls)
Native(call, args, ok, ret) == [call |-> call, args |-> args, ok |-> ok, ret |-> ret]

\* what a method leaves behind: the object, the native table, the exception
\* raised, the value returned (time, corners or the keys of the dataset) and
\* the native calls it made, in order
Outcome(bf, table, e) ==
    [bf |-> bf, amr |-> table, raised |-> e, time |-> None, value |-> <<>>,
     data |-> {}, log |-> <<>>]

\* the amrID property: load on first access; o = "load" is a failing amrio.load
amrID(bf, table, o) ==
    IF bf.amrID # None THEN Outcome(bf, table, "none")
    ELSE IF o = "load"
    THEN [Outcome(bf, table, "LoadError") EXCEPT !.log = <<Native("load", <<>>, FALSE, <<>>)>>]
    ELSE LET id == NewID(table)
         IN [Outcome([bf EXCEPT !.amrID = id], table \cup {id}, "none")
               EXCEPT !.log = <<Native("load", <<>>, TRUE, <<>>)>>]

\* self._domain_corners[level]
Cached(bf, level) == (CHOOSE e \in bf.corners : e[1] = level)[2]

\* domain_corners without the cache: every call asks the native library
domain_corners_NoCache(bf, table, level, c, o) ==
    LET a == amrID(bf, table, o)
    IN IF a.raised # "none" THEN a
       ELSE IF o = "corners"
       THEN [a EXCEPT !.raised = "AmrError",
                      !.log = Append(@, Native("queryDomainCorners", <<level>>, FALSE, <<>>))]
       ELSE [a EXCEPT !.bf.corners = {e \in @ : e[1] # level} \cup {<<level, c>>},
                      !.value = c,
                      !.log = Append(@, Native("queryDomainCorners", <<level>>, TRUE, c))]

\* c is the (lo, hi) amrio.queryDomainCorners returns if it is called;
\* o = "corners" is a failing amrio.queryDomainCorners
domain_corners(bf, table, level, c, o) ==
    IF \E e \in bf.corners : e[1] = level
    THEN [Outcome(bf, table, "none") EXCEPT !.value = Cached(bf, level)]
    ELSE LET a == amrID(bf, table, o)
         IN IF a.raised # "none" THEN a
            ELSE IF o = "corners"
            THEN [a EXCEPT !.raised = "AmrError",
                           !.log = Append(@, Native("queryDomainCorners", <<level>>, FALSE, <<>>))]
            ELSE [a EXCEPT !.bf.corners = @ \cup {<<level, c>>},
                           !.value = c,
                           !.log = Append(@, Native("queryDomainCorners", <<level>>, TRUE, c))]

\* o = "read" is a failing amrio.readBox2D
read_dataarray(bf, table, v, level, ord, c, o) ==
    LET d == domain_corners(bf, table, level, c, o)
    IN IF d.raised # "none" THEN d
       ELSE LET a == amrID(d.bf, d.amr, o)
                call == Native("readBox2D", <<level, d.value, v, ord>>, o # "read", <<>>)
            IN IF a.raised # "none" THEN [a EXCEPT !.log = d.log \o @]
               ELSE [a EXCEPT !.raised = IF o = "read" THEN "AmrError" ELSE "none",
                              !.log = d.log \o @ \o <<call>>]

\* the loop of read_dataset from the i-th item on; the native outcome o meets
\* the k-th read_dataarray, the others succeed
RECURSIVE ReadFrom(_, _, _, _, _, _, _, _)
ReadFrom(acc, variables, i, level, ord, c, o, k) ==
    IF i > Len(variables) THEN acc
    ELSE LET r == read_dataarray(acc.bf, acc.amr, variables[i], level, ord, c,
                                 IF i = k THEN o ELSE "ok")
             log == acc.log \o r.log
         IN IF r.raised # "none" THEN [r EXCEPT !.log = log]
            ELSE ReadFrom([r EXCEPT !.log = log,
                                    !.data = acc.data \cup {Sanitize(variables[i])}],
                          variables, i + 1, level, ord, c, o, k)

read_dataset(bf, table, variables, level, ord, c, o, k) ==
    ReadFrom(Outcome(bf, table, "none"), variables, 1, level, ord, c, o, k)

\* 2^k mod 25
RECURSIVE Pow2Mod25(_)
Pow2Mod25(k) == IF k = 0 THEN 1 ELSE (2 * Pow2Mod25(k - 1)) % 25

\* floor(log2(m)) for an integer m >= 1
RECURSIVE Log2(_)
Log2(m) == IF m < 2 THEN 0 ELSE 1 + Log2(m \div 2)

\* the least j with n * 2^j >= 10000, for 0 < n
RECURSIVE Doublings(_)
Doublings(n) == IF n >= 10000 THEN 0 ELSE 1 + Doublings(2 * n)

\* the binary exponent L of the float n / 10000: 2^L <= n / 10000 < 2^(L + 1)
Exponent(n) == IF n >= 10000 THEN Log2(n \div 10000) ELSE -Doublings(n)

\* round(x, 2) for the float x that is nearest to n / 10000, n >= 0. Off a
\* decimal midpoint the nearest hundredth is returned. On one (n = 50 * q with
\* q odd) the float is q / 200 rounded to 53 bits: the remainder of
\* q * 2^(49 - L) by 25 tells whether the float is exact (round half to even),
\* below the midpoint (round down) or above it (round up).
Round2Pos(n) ==
    LET down == (n \div 100) * 100
        up == down + 100
        r == (((n \div 50) % 25) * Pow2Mod25(49 - Exponent(n))) % 25
    IN IF n % 100 # 50 THEN ((n + 50) \div 100) * 100
       ELSE IF r = 0 THEN (IF (n \div 100) % 2 = 0 THEN down ELSE up)
       ELSE IF 2 * r < 25 THEN down
       ELSE up

\* round(time, 2), correctly rounded from the binary float: half to even when
\* the float is exactly halfway, symmetric in the sign
Round2(raw) == IF raw < 0 THEN -Round2Pos(-raw) ELSE Round2Pos(raw)

\* o = "query" is a failing amrio.queryTime
query_time(bf, table, raw, o) ==
    LET a == amrID(bf, table, o)
    IN IF a.raised # "none" THEN a
       ELSE IF o = "query"
       THEN [a EXCEPT !.raised = "AmrError",
                      !.log = Append(@, Native("queryTime", <<>>, FALSE, <<>>))]
       ELSE [a EXCEPT !.time = Round2(raw),
                      !.log = Append(@, Native("queryTime", <<>>, TRUE, <<>>))]

\* close that forgets the handle without amrio.free
close_NoFree(bf, table) ==
    Outcome([bf EXCEPT !.amrID = None], table, "none")

\* close without the test of _amrID
close_Unguarded(bf, table) ==
    [Outcome([bf EXCEPT !.amrID = None], table \ {bf.amrID}, "none")
       EXCEPT !.log = <<Native("free", <<>>, TRUE, <<>>)>>]

close(bf, table) ==
    IF bf.amrID # None
    THEN [Outcome([bf EXCEPT !.amrID = None], table \ {bf.amrID}, "none")
            EXCEPT !.log = <<Native("free", <<>>, TRUE, <<>>)>>]
    ELSE Outcome(bf, table, "none")

\* an __exit__ that returns a true value and so swallows the exception
__exit___Suppress == TRUE

\* __exit__ calls close and returns None: whether the with-block suppresses
\* the exception that left its body
__exit__ == FALSE

\* no native call made yet: the number of method calls, of amrio.load and
\* amrio.free calls that returned, per level the number of answered
\* amrio.queryDomainCorners calls and the first answer, and the orders
\* amrio.readBox2D was called with
NoCalls ==
    [calls |-> 0, loads |-> 0, frees |-> 0, asked |-> [l \in Levels |-> 0],
     first |-> {}, orders |-> {}]

\* the tally after one more native call
Tally(t, e) ==
    [calls |-> t.calls,
     loads |-> t.loads + IF e.call = "load" /\ e.ok THEN 1 ELSE 0,
     frees |-> t.frees + IF e.call = "free" THEN 1 ELSE 0,
     asked |-> [l \in Levels |->
                  t.asked[l] + IF e.call = "queryDomainCorners" /\ e.ok /\ e.args[1] = l
                               THEN 1 ELSE 0],
     first |-> IF e.call = "queryDomainCorners" /\ e.ok
                  /\ ~\E f \in t.first : f[1] = e.args[1]
               THEN t.first \cup {<<e.args[1], e.ret>>} ELSE t.first,
     orders |-> IF e.call = "readBox2D" THEN t.orders \cup {e.args[4]} ELSE t.orders]

\* the tally after a method that made the native calls of log
RECURSIVE TallyAll(_, _)
TallyAll(t, log) ==
    IF log = <<>> THEN [t EXCEPT !.calls = @ + 1]
    ELSE TallyAll(Tally(t, Head(log)), Tail(log))

----------------------------------------------------------------------------
(* The output file *)

WriteOutcomes == {"ok", "error_nofile", "error_partial", "cancel_nofile", "cancel_partial"}

\* the output path after ds.to_netcdf(outfile) ended with outcome w
to_netcdf(f, w) ==
    IF w = "ok" THEN "complete"
    ELSE IF w \in {"error_partial", "cancel_partial"} THEN "partial"
    ELSE f

\* a check that never finds the output
is_file_Never(f) == FALSE

\* outfile.is_file()
is_file(f) == f # "absent"

unlink_Keep(f) == [file |-> f, raised |-> "none"]

\* outfile.unlink()
unlink(f) ==
    IF f = "absent" THEN [file |-> f, raised |-> "FileNotFoundError"]
    ELSE [file |-> "absent", raised |-> "none"]

\* try: to_netcdf ... except Exception: unlink ... except KeyboardInterrupt: unlink
write_or_unlink(f, w) ==
    IF w = "ok" THEN [file |-> to_netcdf(f, w), raised |-> "none"]
    ELSE unlink(to_netcdf(f, w))

----------------------------------------------------------------------------
(* State *)

PipeInit ==
    /\ outfile = "absent"
    /\ runs = 0
    /\ writes = 0
    /\ completed = 0
    /\ pipeline = "none"
    /\ overwrite = FALSE
    /\ existed = FALSE
    /\ pc = "idle"
    /\ variable = <<>>
    /\ lev = 0
    /\ order = 0
    /\ cli_order = 0
    /\ slices = <<>>
    /\ files = <<>>
    /\ embedded = <<>>
    /\ iters = <<>>
    /\ gi = 0
    /\ fi = 0
    /\ bfile = NewBisiclesFile
    /\ vi = 0
    /\ flat_data = {}
    /\ qtime = None
    /\ exc = "none"
    /\ amr = {}
    /\ batched_it = <<>>
    /\ batched = <<>>
    /\ keys = {}
    /\ calls = <<>>
    /\ skipped = {}
    /\ result = "none"
    /\ wres = "none"
    /\ hfile = NewBisiclesFile
    /\ htable = {}
    /\ hist = NoCalls
    /\ last = [op |-> "__init__", level |-> None, out |-> Outcome(NewBisiclesFile, {}, "none")]
    /\ pairs = <<>>
    /\ ires = Raised("pending")

Init ==
    /\ PipeInit
    /\ name = <<>>
    /\ decoded = Raised("pending")

\* the call ends: its locals go out of scope
EndRun(res) ==
    /\ pc' = "idle"
    /\ result' = res
    /\ variable' = <<>>
    /\ lev' = 0
    /\ order' = 0
    /\ cli_order' = 0
    /\ slices' = <<>>
    /\ files' = <<>>
    /\ embedded' = <<>>
    /\ iters' = <<>>
    /\ gi' = 0
    /\ fi' = 0
    /\ bfile' = NewBisiclesFile
    /\ vi' = 0
    /\ flat_data' = {}
    /\ qtime' = None
    /\ exc' = "none"
    /\ batched_it' = <<>>
    /\ batched' = <<>>
    /\ keys' = {}
    /\ calls' = <<>>
    /\ skipped' = {}

\* a new call of a pipeline, in a new process
BeginRun(p, ow) ==
    /\ pc = "idle"
    /\ runs < MaxRuns
    /\ runs' = runs + 1
    /\ pipeline' = p
    /\ overwrite' = ow
    /\ existed' = is_file(outfile)
    /\ wres' = "none"
    /\ UNCHANGED <<name, decoded, hvars, ivars>>

\* BisiclesFile(file): found is self.exists(), which is False for a name the
\* glob listed that is a dangling link or has been removed since; the suffix
\* is .hdf5 for every name the globs match
__init__(found) == IF ~found THEN "FileNotFoundError" ELSE "none"

\* the with-statement of the next file: the constructor, and if it returns
\* the with-block is entered; exc = "FileNotFoundError" is the constructor's
\* exception on its way out of the call, with __enter__ never reached
EnterWith ==
    /\ pc' = "with"
    /\ bfile' = NewBisiclesFile
    /\ vi' = 1
    /\ flat_data' = {}
    /\ qtime' = None
    /\ \E found \in BOOLEAN : exc' = __init__(found)

----------------------------------------------------------------------------
(* process_ctrl *)

\* process_ctrl up to the first with-block of batch_iterations
StartCtrl(dir, v, l) ==
    /\ BeginRun("ctrl", FALSE)
    /\ amr' = {}
    /\ UNCHANGED <<outfile, writes, completed>>
    /\ IF is_file(outfile) THEN EndRun("exists")
       ELSE LET fs == SortedNames(dir)
                g == GroupFiles(fs)
            IN IF Len(fs) = 0 THEN EndRun("nofiles")
               ELSE IF g.raised # "none" THEN EndRun(g.raised)
               ELSE /\ variable' = v
                    /\ lev' = l
                    /\ order' = 0
                    /\ cli_order' = 0
                    /\ slices' = <<>>
                    /\ files' = fs
                    /\ embedded' = <<>>
                    /\ iters' = g.value
                    /\ gi' = 1
                    /\ fi' = 1
                    /\ calls' = <<g.value[1].tfiles>>
                    /\ batched_it' = <<>>
                    /\ batched' = <<>>
                    /\ keys' = {}
                    /\ skipped' = {}
                    /\ result' = "running"
                    /\ EnterWith

\* the items read_dataset iterates over: process_ctrl passes self.variable, a
\* str, to the read_dataset of BisiclesFile (imported there as bisiclesio),
\* process_plot passes the list self.variables
ReadVars == IF pipeline = "ctrl" THEN Chars(variable) ELSE variable

\* one pass of the loop of read_dataset
ReadDataarray ==
    /\ pc = "with"
    /\ exc = "none"
    /\ vi <= Len(ReadVars)
    /\ \E c \in CornerValues, o \in {"ok", "load", "corners", "read"} :
         LET r == read_dataarray(bfile, amr, ReadVars[vi], lev, order, c, o)
         IN /\ bfile' = r.bf
            /\ amr' = r.amr
            /\ exc' = r.raised
            /\ IF r.raised = "none"
               THEN /\ flat_data' = flat_data \cup {Sanitize(ReadVars[vi])}
                    /\ vi' = vi + 1
               ELSE UNCHANGED <<flat_data, vi>>
    /\ UNCHANGED <<outfile, runs, writes, completed, pipeline, overwrite, existed, pc,
                   variable, lev, order, cli_order, slices, files, embedded, iters, gi, fi, qtime, batched_it,
                   batched, keys, calls, skipped, result, wres, name, decoded, hvars, ivars>>

\* index.is_unique
is_unique(s) == \A i, j \in DOMAIN s : s[i] = s[j] => i = j

\* the values of S in increasing order
RECURSIVE Sorted(_)
Sorted(S) == IF S = {} THEN <<>> ELSE <<Min(S)>> \o Sorted(S \ {Min(S)})

\* the outer join of two differing indexes: their union, sorted
union(s, t) == Sorted({s[i] : i \in DOMAIN s} \cup {t[i] : i \in DOMAIN t})

\* batched = ds if batched is None, else xr.concat([batched, ds], dim='time'):
\* the concat aligns the two datasets on the iteration index with an outer
\* join. Equal indexes are kept as they are; differing ones are reindexed to
\* their sorted union (the dataset is filled where a time has no such
\* iteration), which raises ValueError if an index holds a value twice. acc
\* holds one [time, iteration] per time coordinate, iteration being the
\* iteration index of the whole dataset.
concat_time(acc, ds) ==
    IF acc = <<>> THEN Returned(<<ds>>)
    ELSE LET index == acc[1].iteration
         IN IF index = ds.iteration THEN Returned(Append(acc, ds))
            ELSE IF ~is_unique(index) \/ ~is_unique(ds.iteration)
            THEN Raised("ValueError")
            ELSE LET joined == union(index, ds.iteration)
                     all == Append(acc, ds)
                 IN Returned([k \in 1..Len(all) |->
                                [time |-> all[k].time, iteration |-> joined]])

\* __exit__ of the with-block and the rest of the loops of batch_iterations
\* and batch_timesteps, up to the next with-block
ExitCtrl ==
    /\ pipeline = "ctrl"
    /\ pc = "with"
    /\ exc # "none" \/ vi > Len(ReadVars)
    /\ amr' = IF exc = "FileNotFoundError" THEN amr ELSE close(bfile, amr).amr
    /\ UNCHANGED <<outfile, runs, writes, completed, pipeline, overwrite, existed,
                   wres, name, decoded, hvars, ivars>>
    /\ IF exc = "FileNotFoundError" \/ (exc # "none" /\ ~__exit__) THEN EndRun(exc)
       ELSE LET tfiles == iters[gi].tfiles
                its == Append(batched_it, tfiles[fi][1])
                c == concat_time(batched, [time |-> iters[gi].time, iteration |-> its])
            IN IF fi = Len(tfiles) /\ c.raised # "none" THEN EndRun(c.raised)
               ELSE
               /\ keys' = flat_data
               /\ UNCHANGED <<variable, lev, order, cli_order, slices, files, embedded, iters, skipped, result>>
               /\ IF fi < Len(tfiles)
                  THEN /\ fi' = fi + 1
                       /\ batched_it' = its
                       /\ UNCHANGED <<gi, batched, calls>>
                       /\ EnterWith
                  ELSE /\ batched' = c.value
                       /\ batched_it' = <<>>
                       /\ IF gi < Len(iters)
                          THEN /\ gi' = gi + 1
                               /\ fi' = 1
                               /\ calls' = Append(calls, iters[gi + 1].tfiles)
                               /\ EnterWith
                          ELSE /\ pc' = "batched"
                               /\ bfile' = close(bfile, amr).bf
                               /\ UNCHANGED <<gi, fi, calls, vi, flat_data, qtime, exc>>

\* ds[self.variable].encoding.update(self.specs) and the write of process_ctrl
WriteCtrl ==
    /\ pipeline = "ctrl"
    /\ pc = "batched"
    /\ UNCHANGED <<runs, pipeline, overwrite, existed, amr, name, decoded, hvars, ivars>>
    /\ IF variable \notin keys
       THEN /\ EndRun("KeyError")
            /\ UNCHANGED <<outfile, writes, completed, wres>>
       ELSE \E w \in WriteOutcomes :
              LET r == write_or_unlink(outfile, w)
              IN /\ outfile' = r.file
                 /\ writes' = writes + 1
                 /\ completed' = IF w = "ok" THEN completed + 1 ELSE completed
                 /\ wres' = w
                 /\ EndRun(IF r.raised # "none" THEN r.raised
                           ELSE IF w = "ok" THEN "ok" ELSE "unlinked")

----------------------------------------------------------------------------
(* process_plot *)

Abs(x) == IF x < 0 THEN -x ELSE x

\* atol=0.05
atol == Units(5) \div 100

\* 2^k mod 625
RECURSIVE Pow2Mod625(_)
Pow2Mod625(k) == IF k = 0 THEN 1 ELSE (2 * Pow2Mod625(k - 1)) % 625

\* the sign of float(n / 10000) - n / 10000 for n >= 0: the float is
\* n / 10000 rounded to 53 bits, and the remainder of n * 2^(48 - L) by 625
\* tells whether that rounding is exact, downwards or upwards
FloatError(n) ==
    IF n = 0 THEN 0
    ELSE LET r == ((n % 625) * Pow2Mod625(48 - Exponent(n))) % 625
         IN IF r = 0 THEN 0 ELSE IF 2 * r < 625 THEN -1 ELSE 1

\* np.isclose(a, b, atol=0.05): abs(a - b) <= atol + rtol * abs(b) in double
\* arithmetic, with the default rtol = 1e-5. Off a decimal tie the rounding
\* errors of the doubles are far smaller than the gap between the two sides,
\* so the decimal comparison decides (abs(a - b) is a whole number of units,
\* hence the floor of the right side loses nothing). On a tie, b is a multiple
\* of 10 and exact, a - b is computed exactly, and the right side rounds to
\* the decimal value or just above it whenever that value is a double: the
\* two are close iff the double of a does not lie on the far side of its
\* decimal value. For b = 0 both sides are the double of 0.05.
isclose(a, b) ==
    LET d == Abs(a - b)
        bound == atol + Abs(b) \div 100000
        far == IF Abs(a) > Abs(b) THEN FloatError(Abs(a)) ELSE -FloatError(Abs(a))
    IN IF Abs(b) % 100000 = 0 /\ d = bound
       THEN b = 0 \/ far <= 0
       ELSE d <= bound

\* --order
Orders == {0, 1}

\* main: Processor(variables=args.variables, lev=args.lev), so self.order is
\* the default of __init__ whatever args.order is
Processor_order(args_order) == 0

\* main and process_plot up to the first with-block of batch_time
StartPlot(n, v, l, k) ==
    /\ BeginRun("plot", FALSE)
    /\ amr' = {}
    /\ UNCHANGED <<outfile, writes, completed>>
    /\ IF is_file(outfile) THEN EndRun("exists")
       ELSE IF n = 0 THEN EndRun("nofiles")
       ELSE /\ variable' = v
            /\ lev' = l
            /\ order' = Processor_order(k)
            /\ cli_order' = k
            /\ slices' = <<>>
            /\ files' = Ranks(n)
            /\ embedded' = <<>>
            /\ fi' = 1
            /\ batched' = <<>>
            /\ skipped' = {}
            /\ result' = "running"
            /\ UNCHANGED <<iters, gi, batched_it, keys, calls>>
            /\ EnterWith

\* time = bfile.query_time()
QueryTime ==
    /\ pipeline = "plot"
    /\ pc = "with"
    /\ exc = "none"
    /\ vi > Len(ReadVars)
    /\ qtime = None
    /\ \E raw \in PlotTimes, o \in {"ok", "load", "query"} :
         LET r == query_time(bfile, amr, raw, o)
         IN /\ bfile' = r.bf
            /\ amr' = r.amr
            /\ exc' = r.raised
            /\ qtime' = r.time
            /\ embedded' = IF r.raised = "none" THEN Append(embedded, raw) ELSE embedded
    /\ UNCHANGED <<outfile, runs, writes, completed, pipeline, overwrite, existed, pc,
                   variable, lev, order, cli_order, slices, files, iters, gi, fi, vi, flat_data, batched_it,
                   batched, keys, calls, skipped, result, wres, name, decoded, hvars, ivars>>

\* __exit__ of the with-block and the rest of the loop of batch_time
ExitPlot ==
    /\ pipeline = "plot"
    /\ pc = "with"
    /\ exc # "none" \/ qtime # None
    /\ amr' = IF exc = "FileNotFoundError" THEN amr ELSE close(bfile, amr).amr
    /\ UNCHANGED <<outfile, runs, writes, completed, pipeline, overwrite, existed,
                   wres, name, decoded, hvars, ivars>>
    /\ IF exc = "FileNotFoundError" \/ (exc # "none" /\ ~__exit__) THEN EndRun(exc)
       ELSE /\ IF batched # <<>> /\ isclose(batched[Len(batched)].time, qtime)
               THEN /\ skipped' = skipped \cup {fi}
                    /\ UNCHANGED <<batched, slices, keys>>
               ELSE /\ batched' = Append(batched, [time |-> qtime, iteration |-> <<>>])
                    /\ slices' = Append(slices, flat_data)
                    /\ keys' = flat_data
                    /\ UNCHANGED skipped
            /\ UNCHANGED <<variable, lev, order, cli_order, files, embedded, iters, gi, batched_it, calls,
                           result>>
            /\ IF fi < Len(files)
               THEN /\ fi' = fi + 1
                    /\ EnterWith
               ELSE /\ pc' = "batched"
                    /\ bfile' = close(bfile, amr).bf
                    /\ UNCHANGED <<fi, vi, flat_data, qtime, exc>>

\* the chunksizes (time, y, x) of the encoding_specs property at self.lev = l
encoding_specs(l) ==
    LET xchunks == IF l = 0 THEN 192 ELSE 768
        ychunks == xchunks
        tchunks == IF l = 0 THEN 147 ELSE 49
    IN [chunksizes |-> <<tchunks, ychunks, xchunks>>]

\* the encoding, the chunking and the write of process_plot
WritePlot ==
    /\ pipeline = "plot"
    /\ pc = "batched"
    /\ UNCHANGED <<runs, pipeline, overwrite, existed, amr, name, decoded, hvars, ivars>>
    /\ \E w \in WriteOutcomes :
         LET r == write_or_unlink(outfile, w)
         IN /\ outfile' = r.file
            /\ writes' = writes + 1
            /\ completed' = IF w = "ok" THEN completed + 1 ELSE completed
            /\ wres' = w
            /\ EndRun(IF r.raised # "none" THEN r.raised
                      ELSE IF w = "ok" THEN "ok" ELSE "unlinked")

----------------------------------------------------------------------------
(* process_netcdf *)

\* a range test that also drops the time MAX_TIME itself
out_of_range_Inclusive(time) == time >= Units(MAX_TIME)

\* if time > MAX_TIME: ... continue
out_of_range(time) == time > Units(MAX_TIME)

\* amrio.load ... amrio.free: o names the call that fails, if any
extract_field(table, raw, o) ==
    IF o = "load" THEN [amr |-> table, raised |-> "LoadError", time |-> None]
    ELSE IF o \in {"query", "corners", "read"}
    THEN [amr |-> table \cup {NewID(table)}, raised |-> "AmrError", time |-> None]
    ELSE [amr |-> table, raised |-> "none", time |-> raw]

\* generate_netcdf up to the first extract_field
StartNetcdf(n, v, l, ow) ==
    /\ BeginRun("netcdf", ow)
    /\ amr' = {}
    /\ UNCHANGED <<outfile, writes, completed>>
    /\ IF is_file(outfile) /\ ~ow THEN EndRun("exists")
       ELSE IF n = 0 THEN EndRun("nofiles")
       ELSE IF v \notin specs THEN EndRun("KeyError")
       ELSE /\ variable' = v
            /\ lev' = l
            /\ order' = 0
            /\ cli_order' = 0
            /\ slices' = <<>>
            /\ files' = Ranks(n)
            /\ embedded' = <<>>
            /\ fi' = 1
            /\ batched' = <<>>
            /\ pc' = "extract"
            /\ result' = "running"
            /\ UNCHANGED <<iters, gi, bfile, vi, flat_data, qtime, exc, batched_it,
                           keys, calls, skipped>>

\* one pass of the loop of generate_netcdf
ExtractField ==
    /\ pipeline = "netcdf"
    /\ pc = "extract"
    /\ UNCHANGED <<outfile, runs, writes, completed, pipeline, overwrite, existed,
                   wres, name, decoded, hvars, ivars>>
    /\ \E raw \in NetcdfTimes, o \in {"ok", "load", "query", "corners", "read"} :
         LET r == extract_field(amr, raw, o)
             grown == IF out_of_range(r.time) THEN batched
                      ELSE Append(batched, [time |-> r.time, iteration |-> <<>>])
         IN /\ amr' = r.amr
            /\ IF r.raised # "none" THEN EndRun(r.raised)
               ELSE IF fi = Len(files) /\ grown = <<>> THEN EndRun("norange")
               ELSE /\ batched' = grown
                    /\ keys' = IF grown = <<>> THEN keys ELSE {Sanitize(variable)}
                    /\ skipped' = IF out_of_range(r.time) THEN skipped \cup {fi}
                                  ELSE skipped
                    /\ fi' = IF fi < Len(files) THEN fi + 1 ELSE fi
                    /\ pc' = IF fi < Len(files) THEN "extract" ELSE "batched"
                    /\ embedded' = Append(embedded, raw)
                    /\ UNCHANGED <<variable, lev, order, cli_order, slices, files, iters, gi, bfile, vi, flat_data,
                                   qtime, exc, batched_it, calls, result>>

\* the chunking, the encoding and the write of generate_netcdf
WriteNetcdf ==
    /\ pipeline = "netcdf"
    /\ pc = "batched"
    /\ UNCHANGED <<runs, pipeline, overwrite, existed, amr, name, decoded, hvars, ivars>>
    /\ \E w \in WriteOutcomes :
         /\ outfile' = to_netcdf(outfile, w)
         /\ writes' = writes + 1
         /\ completed' = IF w = "ok" THEN completed + 1 ELSE completed
         /\ wres' = w
         /\ EndRun(IF w = "ok" THEN "ok"
                   ELSE IF w \in {"error_nofile", "error_partial"} THEN "WriteError"
                   ELSE "KeyboardInterrupt")

Next ==
    \/ \E d \in CtrlDirs, v \in CtrlVariables, l \in Levels : StartCtrl(d, v, l)
    \/ \E n \in PlotDirs, v \in PlotVariables, l \in Levels, k \in Orders :
         StartPlot(n, v, l, k)
    \/ \E n \in NetcdfDirs, v \in NetcdfVariables, l \in Levels, ow \in BOOLEAN :
         StartNetcdf(n, v, l, ow)
    \/ ReadDataarray
    \/ QueryTime
    \/ ExitCtrl
    \/ ExitPlot
    \/ ExtractField
    \/ WriteCtrl
    \/ WritePlot
    \/ WriteNetcdf

Spec == Init /\ [][Next]_vars

----------------------------------------------------------------------------
(* get_time_and_iteration on its own *)

run001 == <<"r", "u", "n", "0", "0", "1">>

TimeUnits == {0, 15, 150, 999999}
IterKeys == {0, 1, 13, 999999}

\* the twelve digits of the name convention
Block(t, i) == Pad6(t) \o Pad6(i)

GoodBlocks == {Block(t, i) : t \in TimeUnits, i \in IterKeys}

\* eleven digits, thirteen digits, a letter among the digits, a dot in the middle
BadBlocks ==
    UNION {{SubSeq(b, 1, 11), b \o <<"7">>, [b EXCEPT ![6] = "x"],
            SubSeq(b, 1, 6) \o <<".">> \o SubSeq(b, 7, 12)} : b \in GoodBlocks}

Heads == {<<>>, <<ctrl>>, <<ctrl, run001>>}
Tails == {<<>>, tail2d}

NameInputs == {Join(h \o <<b>> \o t) : h \in Heads, b \in GoodBlocks \cup BadBlocks,
                                       t \in Tails}

InitName ==
    /\ PipeInit
    /\ name \in NameInputs
    /\ decoded = Raised("pending")

DecodeName ==
    /\ decoded.raised = "pending"
    /\ decoded' = get_time_and_iteration(name)
    /\ UNCHANGED name
    /\ UNCHANGED pipevars

NextName == DecodeName

SpecName == InitName /\ [][NextName]_vars

----------------------------------------------------------------------------
(* One BisiclesFile, its methods called in any order *)

\* order arguments a caller may pass
CallOrders == {0, 1, 2}

\* stand-ins for "muCoef" and "dThickness/dt"
CallVariables == {<<"m", "u">>, <<"d", "/", "t">>}

\* times amrio.queryTime may answer with
CallTimes == {Units(15), Units(100) + 1250}

\* the method op, called with level, left r behind
Called(op, level, r) ==
    /\ hist.calls < MaxCalls
    /\ hfile' = r.bf
    /\ htable' = r.amr
    /\ hist' = TallyAll(hist, r.log)
    /\ last' = [op |-> op, level |-> level, out |-> r]
    /\ UNCHANGED <<runvars, name, decoded, ivars>>

Call_domain_corners ==
    \E l \in Levels, c \in CornerValues, o \in {"ok", "load", "corners"} :
      Called("domain_corners", l, domain_corners(hfile, htable, l, c, o))

Call_read_dataarray ==
    \E v \in CallVariables, l \in Levels, ord \in CallOrders, c \in CornerValues,
       o \in {"ok", "load", "corners", "read"} :
      Called("read_dataarray", l, read_dataarray(hfile, htable, v, l, ord, c, o))

Call_read_dataset ==
    \E vs \in PlotVariables, l \in Levels, ord \in CallOrders, c \in CornerValues,
       o \in {"ok", "load", "corners", "read"} :
      \E k \in 1..Len(vs) :
        Called("read_dataset", l, read_dataset(hfile, htable, vs, l, ord, c, o, k))

Call_query_time ==
    \E raw \in CallTimes, o \in {"ok", "load", "query"} :
      Called("query_time", None, query_time(hfile, htable, raw, o))

Call_close == Called("close", None, close(hfile, htable))

\* a read of the public property amrID
Call_amrID ==
    \E o \in {"ok", "load"} : Called("amrID", None, amrID(hfile, htable, o))

NextHandle ==
    \/ Call_amrID
    \/ Call_domain_corners
    \/ Call_read_dataarray
    \/ Call_read_dataset
    \/ Call_query_time
    \/ Call_close

SpecHandle == Init /\ [][NextHandle]_vars

----------------------------------------------------------------------------
(* batch_iterations called on its own *)

\* (iteration, file) pairs
IterPairs == {<<get_time_and_iteration(n).value[2], n>> : n \in CtrlNames \ {ShortName}}

PairLists == UNION {[1..m -> IterPairs] : m \in 0..MaxFiles}

\* batched = None
NoDataset == [none |-> TRUE, iteration |-> <<>>]

\* the loop of batch_iterations from the i-th pair on; the read of the k-th
\* file raises (k = 0: none does)
RECURSIVE BatchFrom(_, _, _, _)
BatchFrom(acc, ps, i, k) ==
    IF i > Len(ps) THEN Returned(acc)
    ELSE IF i = k THEN Raised("AmrError")
    ELSE BatchFrom(IF acc.none THEN [none |-> FALSE, iteration |-> <<ps[i][1]>>]
                   ELSE [acc EXCEPT !.iteration = Append(@, ps[i][1])],
                   ps, i + 1, k)

batch_iterations(ps, k) == BatchFrom(NoDataset, ps, 1, k)

Call_batch_iterations ==
    \E ps \in PairLists :
      \E k \in 0..Len(ps) :
        /\ pairs' = ps
        /\ ires' = batch_iterations(ps, k)
        /\ UNCHANGED <<runvars, name, decoded, hvars>>

NextIter == Call_batch_iterations

SpecIter == Init /\ [][NextIter]_vars

----------------------------------------------------------------------------
(* Properties *)

\* C1: during a process_ctrl call at most one native handle is loaded at any
\* point, it is the handle of the file of the current with-block, and no
\* handle is loaded when the with-block of the next file is entered.
C1_OneHandleAtATime ==
    pipeline = "ctrl" =>
        /\ Cardinality(amr) <= 1
        /\ bfile.amrID = None => amr = {}
        /\ bfile.amrID # None => amr = {bfile.amrID}

\* the second file of a time group is loaded, the first one having been read
C1_Witness ==
    /\ pipeline = "ctrl"
    /\ pc = "with"
    /\ fi = 2
    /\ batched_it # <<>>
    /\ amr = {bfile.amrID}

\* C2: when a call of any of the three pipelines has ended, normally or by an
\* error in a read or a time query, no native handle remains loaded.
C2_ReleasedWhenCallEnds == pc = "idle" => amr = {}

\* C3: when a process_ctrl or process_plot call has ended whose write failed
\* or was cancelled, before or after the file was created, no file exists at
\* the output path.
C3_NoFileAfterFailedWrite ==
    (pc = "idle" /\ pipeline \in {"ctrl", "plot"} /\ wres \notin {"none", "ok"})
        => outfile = "absent"

\* a process_plot call whose write failed after a partial write has ended
C3_Witness ==
    /\ pc = "idle"
    /\ pipeline = "plot"
    /\ wres = "error_partial"
    /\ result = "unlinked"
    /\ outfile = "absent"

\* C4: a call ends as "already exists" only if the write of an earlier call
\* completed.
C4_ExistsOnlyAfterCompletedWrite ==
    (pc = "idle" /\ result = "exists") => completed > 0

\* C5 as stated: a call that starts while the output path is a file ends at
\* once, loads no handle, writes nothing and leaves the output as it is.
C5_ExistingOutputIsNoOp ==
    [][(pc = "idle" /\ outfile # "absent")
         => /\ pc' = "idle"
            /\ amr' = {}
            /\ writes' = writes
            /\ outfile' = outfile]_vars

\* C5 amended: a call of process_ctrl, of process_plot, or of process_netcdf
\* with overwrite off, that starts while the output path is a file ends at once
\* as "already exists", loads no handle, writes nothing and leaves the output
\* as it is; when it is the second call, the two calls have made exactly one
\* write.
C5_ExistingOutputIsNoOpUnlessOverwrite ==
    [][(pc = "idle" /\ outfile # "absent" /\ ~overwrite')
         => /\ pc' = "idle"
            /\ result' = "exists"
            /\ amr' = {}
            /\ writes' = writes
            /\ completed' = completed
            /\ outfile' = outfile
            /\ runs' = 2 => writes' = 1]_vars

\* the second of two calls found the output the first one wrote
C5_Witness ==
    /\ pc = "idle"
    /\ runs = 2
    /\ result = "exists"
    /\ existed
    /\ ~overwrite
    /\ writes = 1
    /\ outfile = "complete"

\* C6: in batch_time the first file is accepted, and a later file is skipped
\* if and only if its time differs from the last accepted time by at most
\* 0.05; otherwise it is appended and becomes the last accepted time.
C6_SkipIffWithinAbsoluteTolerance ==
    [][(pipeline = "plot" /\ pc = "with" /\ exc = "none" /\ qtime # None)
         => IF batched = <<>>
            THEN batched' = <<[time |-> qtime, iteration |-> <<>>]>>
            ELSE IF Abs(qtime - batched[Len(batched)].time) <= atol
            THEN batched' = batched
            ELSE batched' = Append(batched, [time |-> qtime, iteration |-> <<>>])]_vars

\* the TimeKey and the (IterationKey, file) pair of a well-formed name
TimeKey(f) == get_time_and_iteration(f).value[1]
PairOf(f) == <<get_time_and_iteration(f).value[2], f>>

\* the distinct values of a sequence, in order of first appearance
RECURSIVE FirstAppearances(_)
FirstAppearances(q) ==
    IF q = <<>> THEN <<>>
    ELSE LET r == FirstAppearances(SubSeq(q, 1, Len(q) - 1))
             x == q[Len(q)]
         IN IF \E k \in 1..Len(r) : r[k] = x THEN r ELSE Append(r, x)

\* the pairs of the files of a list whose TimeKey is t, in the order of the list
RECURSIVE PairsAt(_, _)
PairsAt(fs, t) ==
    IF fs = <<>> THEN <<>>
    ELSE IF TimeKey(Head(fs)) = t THEN <<PairOf(Head(fs))>> \o PairsAt(Tail(fs), t)
    ELSE PairsAt(Tail(fs), t)

\* the iteration keys of a list of (iteration, file) pairs
IterationsOf(ps) == [k \in 1..Len(ps) |-> ps[k][1]]

\* C7: when batch_timesteps has returned, the time axis holds each distinct
\* TimeKey of the file list once, in order of first appearance, and
\* batch_iterations was invoked once per TimeKey, with the pairs of that
\* TimeKey; for the names 000015000001, 000015000002, 000020000001 the time
\* axis is [15, 20] and batch_iterations was handed iterations [1, 2] for
\* time 15 and iterations [1] for time 20.
C7_OneCoordinatePerTimeKey ==
    (pipeline = "ctrl" /\ pc = "batched") =>
        LET keysOfFiles == [k \in 1..Len(files) |-> TimeKey(files[k])]
            axis == [k \in 1..Len(batched) |-> batched[k].time]
        IN /\ axis = FirstAppearances(keysOfFiles)
           /\ \A j, k \in 1..Len(axis) : axis[j] = axis[k] => j = k
           /\ Len(calls) = Len(axis)
           /\ \A k \in 1..Len(axis) : calls[k] = PairsAt(files, axis[k])
           /\ files = <<CtrlName("a", 15, 1), CtrlName("a", 15, 2), CtrlName("a", 20, 1)>>
                => /\ axis = <<15, 20>>
                   /\ Len(calls) = 2
                   /\ IterationsOf(calls[1]) = <<1, 2>>
                   /\ IterationsOf(calls[2]) = <<1>>

\* the three files of the example have been batched
C7_Witness ==
    /\ pipeline = "ctrl"
    /\ pc = "batched"
    /\ files = <<CtrlName("a", 15, 1), CtrlName("a", 15, 2), CtrlName("a", 20, 1)>>
    /\ batched = <<[time |-> 15, iteration |-> <<1, 2>>], [time |-> 20, iteration |-> <<1, 2>>]>>
    /\ Len(calls) = 2
    /\ IterationsOf(calls[2]) = <<1>>

\* the positions of a file among the pairs of the grouping
Places(f) == {<<g, k>> \in (1..Len(iters)) \X (1..Len(files)) :
                 k <= Len(iters[g].tfiles) /\ iters[g].tfiles[k][2] = f}

\* the rank of a file in the file list
RankOf(f) == CHOOSE j \in 1..Len(files) : files[j] = f

\* C8: in the grouping of batch_timesteps every file of the list appears in
\* exactly one group, exactly once, under its own TimeKey and with its own
\* IterationKey, and the pairs of a group keep the order of the file list.
C8_GroupingTotalAndOrdered ==
    (pipeline = "ctrl" /\ pc \in {"with", "batched"}) =>
        /\ \A j \in 1..Len(files) : Cardinality(Places(files[j])) = 1
        /\ \A g \in 1..Len(iters) :
             /\ iters[g].tfiles # <<>>
             /\ \A k \in 1..Len(iters[g].tfiles) :
                  LET pair == iters[g].tfiles[k]
                  IN /\ \E j \in 1..Len(files) : files[j] = pair[2]
                     /\ pair = PairOf(pair[2])
                     /\ TimeKey(pair[2]) = iters[g].time
             /\ \A k1, k2 \in 1..Len(iters[g].tfiles) :
                  k1 < k2 => RankOf(iters[g].tfiles[k1][2]) < RankOf(iters[g].tfiles[k2][2])

\* a grouping with a group of two pairs and a second group
C8_Witness ==
    /\ pipeline = "ctrl"
    /\ pc = "with"
    /\ Len(iters) = 2
    /\ Len(iters[1].tfiles) = 2

\* C9: a name whose dot-delimited digit block is t and i, each zero padded to
\* six digits, decodes to time = t * dt_typical and iteration = i.
C9_RoundTrip ==
    \A h \in Heads \ {<<>>}, t \in TimeUnits, i \in IterKeys :
        (name = Join(h \o <<Block(t, i)>> \o tail2d) /\ decoded.raised # "pending")
            => decoded = Returned(<<t * dt_typical, i>>)

\* ctrl.run001.000150000013.2d.hdf5 has been decoded
C9_Witness ==
    /\ name = Join(<<ctrl, run001, Block(150, 13)>> \o tail2d)
    /\ decoded = Returned(<<150, 13>>)

\* a segment between two dots that consists of exactly twelve digits
HasBlock12(s) ==
    LET segs == Split(s)
    IN \E k \in 2..(Len(segs) - 1) :
         /\ Len(segs[k]) = 12
         /\ \A j \in 1..12 : IsDigit(segs[k][j])

\* C10: a name without a dot-delimited block of exactly twelve digits makes
\* get_time_and_iteration raise ValueError and return no pair.
C10_MalformedNameRaises ==
    (decoded.raised # "pending" /\ ~HasBlock12(name))
        => decoded = Raised("ValueError")

\* a name with a block of thirteen digits has been rejected
C10_Witness ==
    /\ name = Join(<<ctrl, Block(15, 1) \o <<"7">>>> \o tail2d)
    /\ decoded.raised = "ValueError"

\* C11: whatever methods are called on a BisiclesFile, amrio.free is called
\* once for each handle amrio.load returned and never otherwise: a closed
\* object has as many frees as loads and leaves the native table empty, an
\* open one has exactly one load not yet freed, so that a close directly after
\* a close, or on an object that never loaded, frees nothing.
C11_CloseIdempotent ==
    /\ hist.frees <= hist.loads
    /\ hfile.amrID = None => (hist.frees = hist.loads /\ htable = {})
    /\ hfile.amrID # None => (hist.loads = hist.frees + 1 /\ htable = {hfile.amrID})
    /\ (last.op = "close" /\ hist.loads = 0) => hist.frees = 0

\* a close directly after the close that freed the one loaded handle
C11_Witness ==
    /\ last.op = "close"
    /\ last.out.log = <<>>
    /\ hist.loads = 1
    /\ hist.frees = 1
    /\ hist.calls >= 3

\* the first answer of amrio.queryDomainCorners for level l
FirstAnswer(l) == (CHOOSE f \in hist.first : f[1] = l)[2]

\* C12: whatever sequence of domain_corners, read_dataarray and read_dataset
\* calls is made on one BisiclesFile, amrio.queryDomainCorners answers at most
\* once per level, exactly once for a level that is cached; the cache holds
\* that first answer, domain_corners returns it, and every amrio.readBox2D is
\* called with it.
C12_CornersQueriedOncePerLevel ==
    /\ \A l \in Levels :
         /\ hist.asked[l] <= 1
         /\ (\E e \in hfile.corners : e[1] = l) =>
              (hist.asked[l] = 1 /\ Cached(hfile, l) = FirstAnswer(l))
    /\ (last.op = "domain_corners" /\ last.out.raised = "none") =>
         (hist.asked[last.level] = 1 /\ last.out.value = FirstAnswer(last.level))
    /\ \A i \in DOMAIN last.out.log :
         last.out.log[i].call = "readBox2D" =>
           last.out.log[i].args[2] = FirstAnswer(last.out.log[i].args[1])

\* a third or later call that was answered from the cache without a native
\* query
C12_Witness ==
    /\ last.op = "domain_corners"
    /\ last.out.raised = "none"
    /\ last.out.log = <<>>
    /\ hist.calls >= 3
    /\ hist.asked[last.level] = 1

\* C13: no amrio.readBox2D is made with an interpolation order other than 0
\* or 1, and a read_dataarray or read_dataset that was given another order
\* has raised.
C13_OrderValidated ==
    /\ hist.orders \subseteq {0, 1}
    /\ \A i \in DOMAIN last.out.log :
         (last.out.log[i].call = "readBox2D" /\ last.out.log[i].args[4] \notin {0, 1})
           => last.out.raised # "none"

\* C14: inside process_plot every read is made with the interpolation order
\* given as --order on the command line.
C14_CliOrderDeterminesReads ==
    (pipeline = "plot" /\ pc = "with") => order = cli_order

\* C15: once the opening or a read of a snapshot has raised in a ctrl or plot
\* with-statement or in extract_field, the next step ends the call with that
\* exception: no
\* further snapshot is loaded, nothing is written and the output path is left
\* as it was.
C15_ReadFailureAbortsBatch ==
    [][((pc = "with" /\ exc # "none")
          \/ (pc = "extract" /\ result' \in {"LoadError", "AmrError"}))
        => (/\ pc' = "idle"
            /\ result' \in {"FileNotFoundError", "LoadError", "AmrError"}
            /\ writes' = writes
            /\ outfile' = outfile
            /\ wres' = "none"
            /\ amr' \ amr \subseteq IF pc = "extract" THEN {NewID(amr)} ELSE {})]_vars

\* the read of the second of three plot files has raised
C15_Witness ==
    /\ pipeline = "plot"
    /\ pc = "with"
    /\ exc \in {"LoadError", "AmrError"}
    /\ fi = 2
    /\ Len(files) = 3
    /\ Len(batched) = 1

\* the time coordinates accumulated so far
TimeAxis == [i \in 1..Len(batched) |-> batched[i].time]

AtMostMaxTime(t) == t <= Units(MAX_TIME)

\* C16: in generate_netcdf the accumulated time axis is the sequence of the
\* embedded times read so far that are <= MAX_TIME, once per input and in
\* file order; a call that found no time in range made no write.
C16_TimeAxisIsInputsUpToMaxTime ==
    /\ (pipeline = "netcdf" /\ pc \in {"extract", "batched"}) =>
         TimeAxis = SelectSeq(embedded, AtMostMaxTime)
    /\ (pipeline = "netcdf" /\ pc = "idle" /\ result = "norange") =>
         (wres = "none" /\ (~existed => outfile = "absent"))

\* a finished batch that kept the time MAX_TIME itself and dropped a later one
C16_Witness ==
    /\ pipeline = "netcdf"
    /\ pc = "batched"
    /\ skipped # {}
    /\ \E i \in DOMAIN batched : batched[i].time = Units(MAX_TIME)
    /\ Len(embedded) > Len(batched)

\* the variable keys the call was asked for
Requested ==
    IF pipeline = "plot" THEN {variable[i] : i \in DOMAIN variable} ELSE {variable}

\* C17: the batched dataset holds each requested key under its name without
\* slashes, and the encoding step of process_ctrl finds the variable it
\* addresses.
C17_StoredUnderSanitizedKey ==
    /\ pc = "batched" => keys = {Sanitize(v) : v \in Requested}
    /\ (pipeline = "ctrl" /\ pc = "idle") => result # "KeyError"

\* no value occurs twice in the sequence s
NoDuplicates(s) == \A i, j \in DOMAIN s : i # j => s[i] # s[j]

\* C18: the iteration axis batch_iterations builds holds each iteration index
\* at most once.
C18_IterationAxisDeduplicated ==
    pipeline = "ctrl" =>
      /\ NoDuplicates(batched_it)
      /\ \A g \in DOMAIN batched : NoDuplicates(batched[g].iteration)

\* C19: batch_iterations called with an empty pair list ends with an error.
C19_EmptyPairListFails ==
    (pairs = <<>> /\ ires.raised # "pending") => ires.raised # "none"

\* C20: besides the accumulator, the batchers hold at most one per-file
\* result.
C20_AtMostOnePerFileResultHeld ==
    Len(slices) <= 1

\* C21: in process_ctrl every file is read with a single reader lookup, made
\* with the full requested variable name, and the batched dataset holds
\* exactly that variable.
C21_OneLookupPerFileWithFullName ==
    pipeline = "ctrl" =>
      /\ pc = "with" =>
           /\ vi - 1 <= 1
           /\ \A i \in 1..(vi - 1) : ReadVars[i] = variable
           /\ flat_data \subseteq {Sanitize(variable)}
      /\ pc = "batched" => keys = {Sanitize(variable)}

\* C22: when process_plot runs at a fine level, the y and x chunk sizes and
\* the time steps per chunk of its encoding are smaller than those of level 0.
C22_FineLevelsUseSmallerChunks ==
    (pipeline = "plot" /\ pc = "batched" /\ lev > 0) =>
      LET fine == encoding_specs(lev).chunksizes
          coarse == encoding_specs(0).chunksizes
      IN /\ fine[1] < coarse[1]
         /\ fine[2] < coarse[2]
         /\ fine[3] < coarse[3]

\* C23: the time axis process_plot accumulates holds no two entries within
\* 0.05 of each other, whatever the order of the embedded times.
C23_NoTwoTimesWithinTolerance ==
    pipeline = "plot" =>
      \A i, j \in DOMAIN batched :
        i # j => Abs(batched[i].time - batched[j].time) > atol

\* C24: a BisiclesFile loads at most one native handle in its life, and once
\* it has been closed no later method call leaves a handle loaded.
C24_CloseIsFinal ==
    /\ hist.loads <= 1
    /\ hist.frees >= 1 => (hfile.amrID = None /\ htable = {})

====
